---- MODULE Spec2Model ----
(***************************************************************************)
(* A model of the Loan class of src/src/index.ts: the adjustable           *)
(* properties with their setters, the override pairs, clone(), the lazily  *)
(* cached schedule and the schedule computation itself.                    *)
(*                                                                         *)
(* Numbers.  The code computes in IEEE doubles.  The model computes in     *)
(* exact rationals <<n, d>> (d > 0, lowest terms); <<1, 0>> is +Infinity,  *)
(* <<-1, 0>> is -Infinity and <<0, 0>> is NaN, the three non-finite        *)
(* results a division by zero produces in the annuity formula.  Math.pow   *)
(* is computed exactly, on naturals of arbitrary size held as sequences    *)
(* of base-10000 digits, so that the rounded repayment is the rounding of  *)
(* the exact annuity.                                                      *)
(***************************************************************************)
EXTENDS Integers, Sequences, FiniteSets, TLC

(***************************************************************************)
(* Naturals of arbitrary size: little-endian sequences of digits < Base,   *)
(* without leading zeros (zero is the empty sequence).  They carry the     *)
(* exact value of Math.pow in the annuity formula.                         *)
(***************************************************************************)
Base == 10000

Max2(a, b) == IF a >= b THEN a ELSE b

Digit(a, i) == IF i >= 1 /\ i <= Len(a) THEN a[i] ELSE 0

RECURSIVE BFromInt(_)
BFromInt(n) == IF n = 0 THEN <<>> ELSE <<n % Base>> \o BFromInt(n \div Base)

RECURSIVE BToInt(_)
BToInt(a) == IF a = <<>> THEN 0 ELSE a[1] + Base * BToInt(Tail(a))

\* the number of digits of a without its leading zeros
RECURSIVE BLen(_, _)
BLen(a, n) == IF n = 0 THEN 0 ELSE IF a[n] # 0 THEN n ELSE BLen(a, n - 1)

BTrim(a) == SubSeq(a, 1, BLen(a, Len(a)))

\* the carry into digit i of a + b
RECURSIVE BCarry(_, _, _)
BCarry(a, b, i) ==
    IF i <= 1 THEN 0
    ELSE LET s == Digit(a, i - 1) + Digit(b, i - 1)
         IN  IF s >= Base THEN 1
             ELSE IF s = Base - 1 THEN BCarry(a, b, i - 1)
             ELSE 0

BAdd(a, b) ==
    BTrim([i \in 1..(Max2(Len(a), Len(b)) + 1) |->
              (Digit(a, i) + Digit(b, i) + BCarry(a, b, i)) % Base])

\* the borrow out of digit i of a - b
RECURSIVE BBorrow(_, _, _)
BBorrow(a, b, i) ==
    IF i <= 1 THEN 0
    ELSE IF Digit(a, i - 1) < Digit(b, i - 1) THEN 1
    ELSE IF Digit(a, i - 1) = Digit(b, i - 1) THEN BBorrow(a, b, i - 1)
    ELSE 0

\* a - b for a >= b
BSub(a, b) ==
    BTrim([i \in 1..Len(a) |->
              (Digit(a, i) - Digit(b, i) - BBorrow(a, b, i) + Base) % Base])

\* a * k for one digit k < Base: the low halves of the digit products plus
\* their high halves one place up
BMulDigit(a, k) ==
    IF k = 0 \/ a = <<>> THEN <<>>
    ELSE BAdd([i \in 1..Len(a) |-> (a[i] * k) % Base],
              [i \in 1..(Len(a) + 1) |->
                  IF i = 1 THEN 0 ELSE (a[i - 1] * k) \div Base])

BShift(a) == IF a = <<>> THEN <<>> ELSE <<0>> \o a

\* a * b, by the digits of b (b the shorter operand)
RECURSIVE BMul(_, _)
BMul(a, b) ==
    IF a = <<>> \/ b = <<>> THEN <<>>
    ELSE BAdd(BMulDigit(a, b[1]), BShift(BMul(a, Tail(b))))

\* -1, 0, 1 as a < b, a = b, a > b
BCmp(a, b) ==
    IF Len(a) < Len(b) THEN -1
    ELSE IF Len(a) > Len(b) THEN 1
    ELSE IF \A i \in 1..Len(a) : a[i] = b[i] THEN 0
    ELSE LET top == CHOOSE i \in 1..Len(a) :
                        a[i] # b[i] /\ \A j \in (i + 1)..Len(a) : a[j] = b[j]
         IN  IF a[top] < b[top] THEN -1 ELSE 1

\* acc * a^n.  The recursion halves n and takes the length of the first
\* half's product before it starts on the second, so that the evaluation is
\* never nested deeper than the logarithm of n.
RECURSIVE BPowAcc(_, _, _)
BPowAcc(acc, a, n) ==
    IF n = 0 THEN acc
    ELSE IF n = 1 THEN BMul(acc, a)
    ELSE LET half == BPowAcc(acc, a, n \div 2)
         IN  IF Len(half) >= 0 THEN BPowAcc(half, a, n - n \div 2) ELSE half

\* a^n for an integer a >= 0
BPow(a, n) == BPowAcc(<<1>>, BFromInt(a), n)

\* floor(num / den) for den > 0 and a quotient in lo..hi, by bisection
RECURSIVE BDivSearch(_, _, _, _)
BDivSearch(num, den, lo, hi) ==
    IF lo = hi THEN lo
    ELSE LET mid == lo + (hi - lo + 1) \div 2
         IN  IF BCmp(BMul(den, BFromInt(mid)), num) <= 0
             THEN BDivSearch(num, den, mid, hi)
             ELSE BDivSearch(num, den, lo, mid - 1)

MaxQuotient == 1073741823

BDiv(num, den) == BDivSearch(num, den, 0, MaxQuotient)

(***************************************************************************)
(* Numbers: <<n, d>> with d > 0 in lowest terms, or one of the three       *)
(* non-finite doubles.                                                     *)
(***************************************************************************)
NaN == <<0, 0>>
Infinity == <<1, 0>>
NegInfinity == <<-1, 0>>

Abs(n) == IF n < 0 THEN -n ELSE n

RECURSIVE Gcd(_, _)
Gcd(a, b) == IF b = 0 THEN a ELSE Gcd(b, a % b)

Num(n, d) ==
    IF d = 0 THEN (IF n > 0 THEN Infinity ELSE IF n < 0 THEN NegInfinity ELSE NaN)
    ELSE LET g == Gcd(Abs(n), Abs(d))
             sgn == IF d < 0 THEN -1 ELSE 1
         IN  <<sgn * (n \div g), sgn * (d \div g)>>

Number(n) == <<n, 1>>
Zero == Number(0)

IsNaN(x) == x = NaN
IsFinite(x) == x[2] # 0
\* the truth value JavaScript gives a number: false for 0 and NaN
Truthy(x) == x # Zero /\ x # NaN

Add(x, y) ==
    IF IsNaN(x) \/ IsNaN(y) THEN NaN
    ELSE IF ~IsFinite(x) THEN (IF ~IsFinite(y) /\ y # x THEN NaN ELSE x)
    ELSE IF ~IsFinite(y) THEN y
    ELSE Num(x[1] * y[2] + y[1] * x[2], x[2] * y[2])

Neg(x) == <<-x[1], x[2]>>

Sub(x, y) == Add(x, Neg(y))

\* finite operands only
Mul(x, y) ==
    LET g1 == Gcd(Abs(x[1]), y[2])
        g2 == Gcd(Abs(y[1]), x[2])
    IN  Num((x[1] \div g1) * (y[1] \div g2), (x[2] \div g2) * (y[2] \div g1))

\* x / k for an integer k > 0
DivInt(x, k) ==
    IF ~IsFinite(x) THEN x
    ELSE LET g == Gcd(Abs(x[1]), k) IN Num(x[1] \div g, x[2] * (k \div g))

Less(x, y) ==
    IF IsNaN(x) \/ IsNaN(y) THEN FALSE
    ELSE IF ~IsFinite(x) \/ ~IsFinite(y) THEN
        (x = NegInfinity /\ y # NegInfinity) \/ (y = Infinity /\ x # Infinity)
    ELSE x[1] * y[2] < y[1] * x[2]

Greater(x, y) == Less(y, x)
GreaterEq(x, y) == ~IsNaN(x) /\ ~IsNaN(y) /\ ~Less(x, y)

\* Math.min
Min(x, y) == IF IsNaN(x) \/ IsNaN(y) THEN NaN ELSE IF Less(y, x) THEN y ELSE x

RECURSIVE Pow10(_)
Pow10(f) == IF f = 0 THEN 1 ELSE 10 * Pow10(f - 1)

\* round(num, f): Math.round((num + Number.EPSILON) * div) / div with
\* div = 10^f.  Math.round is floor(x + 1/2); on the exact value the epsilon
\* changes nothing.
round(num, f) ==
    IF ~IsFinite(num) THEN num
    ELSE LET div == Pow10(f)
             g == Gcd(div, num[2])
             m == div \div g
             d == num[2] \div g
             q == num[1] \div d
             r == num[1] % d
         IN  Num(q * m + (2 * r * m + d) \div (2 * d), div)

(***************************************************************************)
(* The Loan object: its private fields, as `new Loan()` leaves them.       *)
(***************************************************************************)
RepaymentFrequency == {"yearly", "quarterly", "monthly", "fortnightly", "weekly"}

NewLoan ==
    [_rate |-> Zero,
     _termInMonths |-> 0,
     _interestOnlyRepayments |-> 0,
     _calculated |-> FALSE,
     _armVariableRate |-> Zero,
     _amount |-> Zero,
     _repaymentFrequency |-> "monthly",
     _extraPayment |-> Zero,
     _interestOnlyYears |-> 0,
     _calculateWeeklyAndFortnightlyRepaymentsBasedOnYearlyRepayments |-> FALSE,
     _totalCost |-> Zero,
     _totalInterest |-> Zero,
     _payments |-> <<>>,
     _armFixedRateForRepaymentCount |-> 0,
     _armFixedRateForYears |-> 0,
     _armRepaymentCountBetweenAdjustments |-> 0,
     _armMonthsBetweenAdjustments |-> 12,
     _armExpectedAdjustmentRate |-> Zero,
     _armMaximumInterestRate |-> Zero,
     _rounding |-> 8]

_invalidate(this) == [this EXCEPT !._calculated = FALSE]

(***************************************************************************)
(* Getters.  A count, a number of years or of months is an integer where   *)
(* it is stored and a number where a getter converts it.                   *)
(***************************************************************************)
paymentsCountPerYear(this) ==
    CASE this._repaymentFrequency = "yearly" -> 1
      [] this._repaymentFrequency = "quarterly" -> 4
      [] this._repaymentFrequency = "monthly" -> 12
      [] this._repaymentFrequency = "fortnightly" -> 26
      [] this._repaymentFrequency = "weekly" -> 52

paymentsCountTotal(this) ==
    (paymentsCountPerYear(this) * this._termInMonths) \div 12

years(this) == this._termInMonths \div 12

\* the years view of a stored count, left unconverted
interestOnlyYears_unconverted(this) ==
    IF this._interestOnlyYears # 0 THEN Number(this._interestOnlyYears)
    ELSE Number(this._interestOnlyRepayments)

interestOnlyYears(this) ==
    IF this._interestOnlyYears # 0 THEN Number(this._interestOnlyYears)
    ELSE Num(this._interestOnlyRepayments, paymentsCountPerYear(this))

interestOnlyRepaymentCount(this) ==
    IF this._interestOnlyYears # 0
    THEN Number(this._interestOnlyYears * paymentsCountPerYear(this))
    ELSE Number(this._interestOnlyRepayments)

armFixedRateForRepaymentCount(this) ==
    IF this._armFixedRateForYears # 0
    THEN Number(this._armFixedRateForYears * paymentsCountPerYear(this))
    ELSE Number(this._armFixedRateForRepaymentCount)

armFixedRateForYears(this) ==
    IF this._armFixedRateForYears # 0 THEN Number(this._armFixedRateForYears)
    ELSE Num(this._armFixedRateForRepaymentCount, paymentsCountPerYear(this))

armRepaymentCountBetweenAdjustments(this) ==
    IF this._armMonthsBetweenAdjustments # 0
    THEN Num(this._armMonthsBetweenAdjustments * paymentsCountPerYear(this), 12)
    ELSE Number(this._armRepaymentCountBetweenAdjustments)

armMonthsBetweenAdjustments(this) ==
    IF this._armMonthsBetweenAdjustments # 0
    THEN Number(this._armMonthsBetweenAdjustments)
    ELSE Num(this._armRepaymentCountBetweenAdjustments * 12, paymentsCountPerYear(this))

(***************************************************************************)
(* Setters: each returns the object after the call.                        *)
(***************************************************************************)
SetAmount(this, amount) ==
    IF this._amount = amount THEN this
    ELSE _invalidate([this EXCEPT !._amount = amount])

\* the frequency setter also converting the stored interest-only count
SetRepaymentFrequency_rescaling(this, f) ==
    IF this._repaymentFrequency = f THEN this
    ELSE LET to == [this EXCEPT !._repaymentFrequency = f]
         IN  _invalidate([to EXCEPT !._interestOnlyRepayments =
                 (@ * paymentsCountPerYear(to)) \div paymentsCountPerYear(this)])

SetRepaymentFrequency(this, f) ==
    IF this._repaymentFrequency = f THEN this
    ELSE _invalidate([this EXCEPT !._repaymentFrequency = f])

\* The setter of extraPayment without the call of _invalidate
SetExtraPayment_keeping_cache(this, p) ==
    IF this._extraPayment = p THEN this
    ELSE [this EXCEPT !._extraPayment = p]

SetExtraPayment(this, p) ==
    IF this._extraPayment = p THEN this
    ELSE _invalidate([this EXCEPT !._extraPayment = p])

SetInterestOnlyYears(this, y) ==
    IF this._interestOnlyYears = y THEN this
    ELSE _invalidate([this EXCEPT !._interestOnlyYears = y,
                                  !._interestOnlyRepayments = 0])

SetCalculateWeeklyAndFortnightlyRepaymentsBasedOnYearlyRepayments(this, value) ==
    _invalidate([this EXCEPT
        !._calculateWeeklyAndFortnightlyRepaymentsBasedOnYearlyRepayments = value])

SetArmFixedRateForRepaymentCount(this, n) ==
    IF this._armFixedRateForRepaymentCount = n THEN this
    ELSE _invalidate([this EXCEPT !._armFixedRateForRepaymentCount = n,
                                  !._armFixedRateForYears = 0])

SetArmFixedRateForYears(this, y) ==
    IF this._armFixedRateForYears = y THEN this
    ELSE _invalidate([this EXCEPT !._armFixedRateForRepaymentCount = 0,
                                  !._armFixedRateForYears = y])

SetArmRepaymentCountBetweenAdjustments(this, m) ==
    IF this._armRepaymentCountBetweenAdjustments = m THEN this
    ELSE _invalidate([this EXCEPT !._armRepaymentCountBetweenAdjustments = m,
                                  !._armMonthsBetweenAdjustments = 0])

SetArmMonthsBetweenAdjustments(this, m) ==
    IF this._armMonthsBetweenAdjustments = m THEN this
    ELSE _invalidate([this EXCEPT !._armMonthsBetweenAdjustments = m,
                                  !._armRepaymentCountBetweenAdjustments = 0])

SetArmExpectedAdjustmentRate(this, rate) ==
    IF this._armExpectedAdjustmentRate = rate THEN this
    ELSE _invalidate([this EXCEPT !._armExpectedAdjustmentRate = rate])

SetArmMaximumInterestRate(this, rate) ==
    IF this._armMaximumInterestRate = rate THEN this
    ELSE _invalidate([this EXCEPT !._armMaximumInterestRate = rate])

SetRounding(this, r) ==
    IF this._rounding = r THEN this
    ELSE _invalidate([this EXCEPT !._rounding = r])

SetInterestRate(this, rate) ==
    IF this._rate = rate THEN this
    ELSE _invalidate([this EXCEPT !._rate = rate])

SetMonths(this, m) ==
    IF this._termInMonths = m THEN this
    ELSE _invalidate([this EXCEPT !._termInMonths = m])

SetYears(this, y) ==
    IF this._termInMonths = y * 12 THEN this
    ELSE _invalidate([this EXCEPT !._termInMonths = y * 12])

SetInterestOnlyRepaymentCount(this, n) ==
    IF this._interestOnlyRepayments = n THEN this
    ELSE _invalidate([this EXCEPT !._interestOnlyRepayments = n,
                                  !._interestOnlyYears = 0])

SetArmInitialVariableRate(this, rate) ==
    IF this._armVariableRate = rate THEN this
    ELSE _invalidate([this EXCEPT !._armVariableRate = rate])

(***************************************************************************)
(* clone(): a new Loan with the sixteen adjustable fields copied.          *)
(***************************************************************************)
clone(this) ==
    [NewLoan EXCEPT
        !._amount = this._amount,
        !._rate = this._rate,
        !._termInMonths = this._termInMonths,
        !._repaymentFrequency = this._repaymentFrequency,
        !._extraPayment = this._extraPayment,
        !._interestOnlyRepayments = this._interestOnlyRepayments,
        !._interestOnlyYears = this._interestOnlyYears,
        !._calculateWeeklyAndFortnightlyRepaymentsBasedOnYearlyRepayments =
            this._calculateWeeklyAndFortnightlyRepaymentsBasedOnYearlyRepayments,
        !._armFixedRateForRepaymentCount = this._armFixedRateForRepaymentCount,
        !._armFixedRateForYears = this._armFixedRateForYears,
        !._armVariableRate = this._armVariableRate,
        !._armRepaymentCountBetweenAdjustments = this._armRepaymentCountBetweenAdjustments,
        !._armMonthsBetweenAdjustments = this._armMonthsBetweenAdjustments,
        !._armExpectedAdjustmentRate = this._armExpectedAdjustmentRate,
        !._armMaximumInterestRate = this._armMaximumInterestRate,
        !._rounding = this._rounding]

_round(this, num) == round(num, this._rounding)

(***************************************************************************)
(* The values the caller gives the properties.                             *)
(***************************************************************************)
Amounts == {Zero, Number(1000), Num(2001, 2)}
Rates == {Zero, Number(10)}
Months == {0, 1, 3}
Years == {1, 2}
ExtraPayments == {Zero, Num(1, 100), Number(100)}
Roundings == {0, 2}
InterestOnlyCounts == {0, 2, 12}
InterestOnlyYears == {0, 1}
ArmFixedCounts == {0, 1}
ArmFixedYears == {0, 1}
ArmVariableRates == {Zero, Number(12)}
ArmCountsBetween == {0, 2}
ArmMonthsBetween == {0, 12}
ArmAdjustmentRates == {Zero, Number(6)}
ArmMaximumRates == {Zero, Number(9), Number(18)}


(***************************************************************************)
(* repaymentAmount.                                                        *)
(*                                                                         *)
(* Annuity(amount, interest, n, f) is round(amount * x * interest /        *)
(* (x - 1), f) for x = Math.pow(1 + interest, n), amount >= 0 and          *)
(* interest >= 0.  With interest = a/b the power is (a+b)^n / b^n, and     *)
(* the quotient is A * a * X / (B * b * (X - Y)) for n > 0 and the         *)
(* negative of A * a * Y / (B * b * (X - Y)) for n < 0, where amount =     *)
(* A/B, X = (a+b)^|n| and Y = b^|n|.  x - 1 is zero for n = 0 and for      *)
(* interest = 0: the division then gives Infinity, or NaN for 0 / 0.       *)
(***************************************************************************)
AnnuityOf(amount, interest, n, f) ==
    IF interest = Zero THEN NaN
    ELSE IF n = 0 THEN (IF amount = Zero THEN NaN ELSE Infinity)
    ELSE IF amount = Zero THEN Zero
    ELSE LET m == Abs(n)
             X == BPow(interest[1] + interest[2], m)
             Y == BPow(interest[2], m)
             top == BMul(BMul(IF n > 0 THEN X ELSE Y, BFromInt(amount[1])),
                         BFromInt(interest[1]))
             den == BMul(BMul(BSub(X, Y), BFromInt(amount[2])),
                         BFromInt(interest[2]))
             \* twice the quotient scaled to f digits is num2 / den2
             num2 == BMul(BMul(top, BFromInt(Pow10(f))), <<2>>)
             den2 == BMul(den, <<2>>)
         IN  IF n > 0
             THEN \* floor(q + 1/2)
                  Num(BDiv(BAdd(num2, den), den2), Pow10(f))
             ELSE \* floor(-q + 1/2) = -ceiling(q - 1/2)
                  IF BCmp(num2, den) <= 0 THEN Zero
                  ELSE Num(-BDiv(BSub(BAdd(BSub(num2, den), den2), <<1>>), den2),
                           Pow10(f))

\* The quotient is worked out once for each case the caller's values lead
\* to, and looked up afterwards.
TermsInMonths == Months \cup {12 * y : y \in Years}
RepaymentCases ==
    {<<amount, Num(rate[1], rate[2] * ppy * 100), (ppy * m) \div 12 - io, f>> :
        amount \in Amounts, rate \in Rates, ppy \in {1, 4, 12, 26, 52},
        m \in TermsInMonths, io \in InterestOnlyCounts, f \in Roundings}
AnnuityTable ==
    [case \in RepaymentCases |-> AnnuityOf(case[1], case[2], case[3], case[4])]
Annuity(amount, interest, n, f) ==
    IF <<amount, interest, n, f>> \in RepaymentCases
    THEN AnnuityTable[<<amount, interest, n, f>>]
    ELSE AnnuityOf(amount, interest, n, f)

RECURSIVE repaymentAmount(_)
repaymentAmount(this) ==
    IF /\ ~this._calculateWeeklyAndFortnightlyRepaymentsBasedOnYearlyRepayments
       /\ this._repaymentFrequency \in {"weekly", "fortnightly"}
    THEN LET monthly == SetRepaymentFrequency(clone(this), "monthly")
         IN  IF this._repaymentFrequency = "weekly"
             THEN DivInt(repaymentAmount(monthly), 4)
             ELSE DivInt(repaymentAmount(monthly), 2)
    ELSE LET ppy == paymentsCountPerYear(this)
             paymentsTotal == paymentsCountTotal(this)
             interestOnlyRepayments == this._interestOnlyRepayments
             interest == DivInt(this._rate, ppy * 100)
         IN  Annuity(this._amount, interest, paymentsTotal - interestOnlyRepayments,
                     this._rounding)

_calcInterestRateForPeriod(this) ==
    DivInt(this._rate, paymentsCountPerYear(this) * 100)

(***************************************************************************)
(* _calculate.                                                             *)
(***************************************************************************)
LoanPayment(amount, principal, interest, balance) ==
    [amount |-> amount, principal |-> principal, interest |-> interest,
     balance |-> balance]

_addPayment(this, amount, principal, interest, balance) ==
    LET payment == LoanPayment(amount, principal, interest, balance)
    IN  [this EXCEPT !._payments = Append(@, payment),
                     !._totalCost = Add(@, payment.amount),
                     !._totalInterest = Add(@, payment.interest)]

\* p % m === 0 for an integer p >= 0 and a number m >= 0: p % 0 is NaN
IsMultiple(p, m) == m # Zero /\ (p * m[2]) % m[1] = 0

\* The loop's constants with the ARM switched on by the variable and the
\* maximum rate alone
LoopConstants_two_rates(this) ==
    [repayment |-> repaymentAmount(this),
     variableRate |-> DivInt(this._armVariableRate, 1200),
     interestOnlyRepayments |-> interestOnlyRepaymentCount(this),
     adjustAfterRepayments |-> armFixedRateForRepaymentCount(this),
     adjustmentPeriod |-> armRepaymentCountBetweenAdjustments(this),
     adjustmentPercentage |-> DivInt(this._armExpectedAdjustmentRate, 1200),
     maxAdjustedRate |-> DivInt(this._armMaximumInterestRate, 1200),
     doAdjustments |-> /\ Truthy(this._armVariableRate)
                       /\ Truthy(this._armMaximumInterestRate),
     n |-> paymentsCountTotal(this)]

\* What the loop reads and never writes.
LoopConstants(this) ==
    [repayment |-> repaymentAmount(this),
     variableRate |-> DivInt(this._armVariableRate, 1200),
     interestOnlyRepayments |-> interestOnlyRepaymentCount(this),
     adjustAfterRepayments |-> armFixedRateForRepaymentCount(this),
     adjustmentPeriod |-> armRepaymentCountBetweenAdjustments(this),
     adjustmentPercentage |-> DivInt(this._armExpectedAdjustmentRate, 1200),
     maxAdjustedRate |-> DivInt(this._armMaximumInterestRate, 1200),
     doAdjustments |-> /\ Truthy(this._armVariableRate)
                       /\ Truthy(this._armExpectedAdjustmentRate)
                       /\ Truthy(this._armMaximumInterestRate),
     n |-> paymentsCountTotal(this)]

\* The rate of period p, from the rate of the period before it.
AdjustedRate(k, rate, p) ==
    IF ~k.doAdjustments THEN rate
    ELSE LET switched == IF Number(p) = k.adjustAfterRepayments
                         THEN k.variableRate ELSE rate
         IN  IF /\ Greater(Number(p), k.adjustAfterRepayments)
                /\ IsMultiple(p, k.adjustmentPeriod)
             THEN Min(Add(switched, k.adjustmentPercentage), k.maxAdjustedRate)
             ELSE switched

\* One turn of the loop with the extra payment left out of the principal
LoopBody_principal_without_extra(k, st, p) ==
    IF ~Greater(st.balance, Zero) THEN st
    ELSE LET this == st.this
             rate == AdjustedRate(k, st.rate, p)
             amortizing == GreaterEq(Number(p), k.interestOnlyRepayments)
             extra == IF amortizing THEN this._extraPayment ELSE Zero
             interest == _round(this, Mul(rate, st.balance))
             amount == IF amortizing
                       THEN _round(this, Min(Add(k.repayment, extra),
                                             Add(st.balance, interest)))
                       ELSE interest
             principal == IF amortizing
                          THEN Min(_round(this, Sub(k.repayment, interest)),
                                   st.balance)
                          ELSE Zero
             balance == _round(this, Sub(st.balance, principal))
         IN  [this |-> _addPayment(this, amount, principal, interest, balance),
              rate |-> rate,
              balance |-> balance]

\* One turn of the loop at period p, on the loop's variables
\* st = [this, rate, balance]; no turn once the balance is not positive.
LoopBody(k, st, p) ==
    IF ~Greater(st.balance, Zero) THEN st
    ELSE LET this == st.this
             rate == AdjustedRate(k, st.rate, p)
             amortizing == GreaterEq(Number(p), k.interestOnlyRepayments)
             extra == IF amortizing THEN this._extraPayment ELSE Zero
             interest == _round(this, Mul(rate, st.balance))
             amount == IF amortizing
                       THEN _round(this, Min(Add(k.repayment, extra),
                                             Add(st.balance, interest)))
                       ELSE interest
             principal == IF amortizing
                          THEN Min(_round(this, Add(Sub(k.repayment, interest), extra)),
                                   st.balance)
                          ELSE Zero
             balance == _round(this, Sub(st.balance, principal))
         IN  [this |-> _addPayment(this, amount, principal, interest, balance),
              rate |-> rate,
              balance |-> balance]

\* The turns for periods lo..hi, in order.  The first half is evaluated (its
\* balance is read) before the second starts, so that the evaluation is
\* never nested deeper than the logarithm of the number of periods.
RECURSIVE Loop(_, _, _, _)
Loop(k, st, lo, hi) ==
    IF lo > hi THEN st
    ELSE IF lo = hi THEN LoopBody(k, st, lo)
    ELSE LET mid == (lo + hi) \div 2
             first == Loop(k, st, lo, mid)
         IN  IF first.balance = first.balance THEN Loop(k, first, mid + 1, hi)
             ELSE first

\* !this._amount || !this._termInMonths || !this._rate
Degenerate(this) ==
    ~Truthy(this._amount) \/ this._termInMonths = 0 \/ ~Truthy(this._rate)

\* The loop's variables before its first turn: the schedule and the totals
\* reset, the rate of a period, the whole amount owed.
LoopStart(this) ==
    [this |-> [this EXCEPT !._payments = <<>>,
                           !._totalInterest = Zero,
                           !._totalCost = Zero],
     rate |-> _calcInterestRateForPeriod(this),
     balance |-> this._amount]

\* The loop going through one period more than paymentsCountTotal
RunLoop_one_more(k, this) == Loop(k, LoopStart(this), 0, k.n)

\* The loop over the periods 0 .. paymentsCountTotal - 1.
RunLoop(k, this) == Loop(k, LoopStart(this), 0, k.n - 1)

\* After the loop: a balance left over is paid in one more payment, unless
\* it rounds to a cent or less.
LastPayment(end) ==
    IF Greater(round(end.balance, 2), Num(1, 100))
    THEN _addPayment(end.this, end.balance, end.balance, Zero, Zero)
    ELSE end.this

\* _calculate without the mark that the schedule is built
_calculate_unmarked(this) ==
    IF this._calculated THEN this
    ELSE IF Degenerate(this) THEN this
    ELSE LastPayment(RunLoop(LoopConstants(this), this))

_calculate(this) ==
    IF this._calculated THEN this
    ELSE IF Degenerate(this) THEN this
    ELSE [LastPayment(RunLoop(LoopConstants(this), this)) EXCEPT !._calculated = TRUE]

totalCost(this) == _calculate(this)._totalCost
totalInterest(this) == _calculate(this)._totalInterest
payments(this) == _calculate(this)._payments

(***************************************************************************)
(* The program around the class: a variable `loan` holding a Loan built    *)
(* the way the tests build one, a variable `c` holding a clone once one    *)
(* has been taken, and a caller that sets properties, reads them and       *)
(* clones, through either variable.  Objects live in `heap`; a variable    *)
(* holds a reference, 0 for none.                                          *)
(***************************************************************************)
MaxSteps == 3

VARIABLES heap, c, op, steps
vars == <<heap, c, op, steps>>

Refs == {1, 2, 3}
Names == {"loan", "c"}
Ref(v) == IF v = "loan" THEN 1 ELSE c
Bound == {v \in Names : Ref(v) # 0}

\* A loan configured as the tests and the README configure one: a new
\* Loan, then amount, term, rate and rounding set.
newLoan(amount, m, rate, r) ==
    SetRounding(SetInterestRate(SetMonths(SetAmount(NewLoan, amount), m), rate), r)

\* `loan` is newLoan(...); the other objects are not in use.
Init ==
    /\ \E amount \in Amounts \ {Zero}, m \in Months \ {0}, rate \in Rates \ {Zero},
          r \in Roundings :
          heap = [h \in Refs |-> IF h = 1 THEN newLoan(amount, m, rate, r)
                                 ELSE NewLoan]
    /\ c = 0
    /\ op = [name |-> "newLoan", var |-> "loan", arg |-> 0, twice |-> FALSE]
    /\ steps = 0

\* The derived properties, and those whose getter builds the schedule.
ReadNames ==
    {"repaymentAmount", "totalCost", "totalInterest", "payments",
     "paymentsCountPerYear", "paymentsCountTotal"}
CalcReadNames == {"totalCost", "totalInterest", "payments"}

\* A call of a setter or of a getter through variable v, after which the
\* object v refers to is `after`.  op records the call, and whether it is a
\* read that directly follows a read through the same variable.
Call(v, name, arg, after) ==
    /\ steps < MaxSteps
    /\ v \in Bound
    /\ heap' = [heap EXCEPT ![Ref(v)] = after]
    /\ op' = [name |-> name, var |-> v, arg |-> arg,
              twice |-> name \in ReadNames /\ op.name \in ReadNames /\ op.var = v]
    /\ steps' = steps + 1
    /\ c' = c

This(v) == heap[Ref(v)]

WriteAmount(v) ==
    \E x \in Amounts : Call(v, "amount", x, SetAmount(This(v), x))
WriteInterestRate(v) ==
    \E x \in Rates : Call(v, "interestRate", x, SetInterestRate(This(v), x))
WriteMonths(v) ==
    \E x \in Months : Call(v, "months", x, SetMonths(This(v), x))
WriteYears(v) ==
    \E x \in Years : Call(v, "years", x, SetYears(This(v), x))
WriteRepaymentFrequency(v) ==
    \E x \in RepaymentFrequency :
        Call(v, "repaymentFrequency", x, SetRepaymentFrequency(This(v), x))
WriteExtraPayment(v) ==
    \E x \in ExtraPayments :
        Call(v, "extraPayment", x, SetExtraPayment(This(v), x))
WriteRounding(v) ==
    \E x \in Roundings : Call(v, "rounding", x, SetRounding(This(v), x))
WriteCalculateWeeklyAndFortnightlyRepaymentsBasedOnYearlyRepayments(v) ==
    \E x \in BOOLEAN :
        Call(v, "calculateWeeklyAndFortnightlyRepaymentsBasedOnYearlyRepayments", x,
             SetCalculateWeeklyAndFortnightlyRepaymentsBasedOnYearlyRepayments(This(v), x))
WriteInterestOnlyRepaymentCount(v) ==
    \E x \in InterestOnlyCounts :
        Call(v, "interestOnlyRepaymentCount", x,
             SetInterestOnlyRepaymentCount(This(v), x))
WriteInterestOnlyYears(v) ==
    \E x \in InterestOnlyYears :
        Call(v, "interestOnlyYears", x, SetInterestOnlyYears(This(v), x))
WriteArmFixedRateForRepaymentCount(v) ==
    \E x \in ArmFixedCounts :
        Call(v, "armFixedRateForRepaymentCount", x,
             SetArmFixedRateForRepaymentCount(This(v), x))
WriteArmFixedRateForYears(v) ==
    \E x \in ArmFixedYears :
        Call(v, "armFixedRateForYears", x, SetArmFixedRateForYears(This(v), x))
WriteArmInitialVariableRate(v) ==
    \E x \in ArmVariableRates :
        Call(v, "armInitialVariableRate", x, SetArmInitialVariableRate(This(v), x))
WriteArmRepaymentCountBetweenAdjustments(v) ==
    \E x \in ArmCountsBetween :
        Call(v, "armRepaymentCountBetweenAdjustments", x,
             SetArmRepaymentCountBetweenAdjustments(This(v), x))
WriteArmMonthsBetweenAdjustments(v) ==
    \E x \in ArmMonthsBetween :
        Call(v, "armMonthsBetweenAdjustments", x,
             SetArmMonthsBetweenAdjustments(This(v), x))
WriteArmExpectedAdjustmentRate(v) ==
    \E x \in ArmAdjustmentRates :
        Call(v, "armExpectedAdjustmentRate", x,
             SetArmExpectedAdjustmentRate(This(v), x))
WriteArmMaximumInterestRate(v) ==
    \E x \in ArmMaximumRates :
        Call(v, "armMaximumInterestRate", x,
             SetArmMaximumInterestRate(This(v), x))

\* The getters that build the schedule first, and those that do not.
ReadPayments(v) == Call(v, "payments", 0, _calculate(This(v)))
ReadTotalCost(v) == Call(v, "totalCost", 0, _calculate(This(v)))
ReadTotalInterest(v) == Call(v, "totalInterest", 0, _calculate(This(v)))
ReadRepaymentAmount(v) == Call(v, "repaymentAmount", 0, This(v))
ReadPaymentsCountPerYear(v) == Call(v, "paymentsCountPerYear", 0, This(v))
ReadPaymentsCountTotal(v) == Call(v, "paymentsCountTotal", 0, This(v))

\* clone() handing back the object it was called on
New_this(this) == this

\* The reference `new Loan()` yields inside clone() called on `this`: an
\* object no variable refers to.
New(this) == CHOOSE r \in Refs : r # 1 /\ r # c

\* c = v.clone(): the object c referred to before is dropped.
TakeClone(v) ==
    /\ steps < MaxSteps
    /\ v \in Bound
    /\ LET copy == New(Ref(v))
       IN  /\ heap' = [h \in Refs |->
                          IF h = copy THEN clone(This(v))
                          ELSE IF h = 1 THEN heap[1] ELSE NewLoan]
           /\ c' = copy
    /\ op' = [name |-> "clone", var |-> v, arg |-> 0, twice |-> FALSE]
    /\ steps' = steps + 1

Next ==
    \E v \in Names :
        \/ WriteAmount(v)
        \/ WriteInterestRate(v)
        \/ WriteMonths(v)
        \/ WriteYears(v)
        \/ WriteRepaymentFrequency(v)
        \/ WriteExtraPayment(v)
        \/ WriteRounding(v)
        \/ WriteCalculateWeeklyAndFortnightlyRepaymentsBasedOnYearlyRepayments(v)
        \/ WriteInterestOnlyRepaymentCount(v)
        \/ WriteInterestOnlyYears(v)
        \/ WriteArmFixedRateForRepaymentCount(v)
        \/ WriteArmFixedRateForYears(v)
        \/ WriteArmInitialVariableRate(v)
        \/ WriteArmRepaymentCountBetweenAdjustments(v)
        \/ WriteArmMonthsBetweenAdjustments(v)
        \/ WriteArmExpectedAdjustmentRate(v)
        \/ WriteArmMaximumInterestRate(v)
        \/ ReadPayments(v)
        \/ ReadTotalCost(v)
        \/ ReadTotalInterest(v)
        \/ ReadRepaymentAmount(v)
        \/ ReadPaymentsCountPerYear(v)
        \/ ReadPaymentsCountTotal(v)
        \/ TakeClone(v)

Spec == Init /\ [][Next]_vars

\* A loan configured as the README's ARM example configures one: amount,
\* term and rate, then the three ARM rates, all non-zero.
newArmLoan(r, variable, adjustment, maximum) ==
    SetArmExpectedAdjustmentRate(
        SetArmMaximumInterestRate(
            SetArmInitialVariableRate(newLoan(Number(1000), 3, Number(10), r),
                                      variable),
            maximum),
        adjustment)

\* `loan` is newArmLoan(...); the other objects are not in use.
InitArm ==
    /\ \E r \in Roundings, variable \in ArmVariableRates \ {Zero},
          adjustment \in ArmAdjustmentRates \ {Zero},
          maximum \in ArmMaximumRates \ {Zero} :
          heap = [h \in Refs |-> IF h = 1
                                 THEN newArmLoan(r, variable, adjustment, maximum)
                                 ELSE NewLoan]
    /\ c = 0
    /\ op = [name |-> "newLoan", var |-> "loan", arg |-> 0, twice |-> FALSE]
    /\ steps = 0

ArmSpec == InitArm /\ [][Next]_vars

(***************************************************************************)
(* The claims.                                                             *)
(***************************************************************************)

\* C1: in every reachable state, a Loan whose amount, term or rate is zero
\* reads an empty schedule and zero totals, also when a schedule was built
\* for an earlier configuration of the same Loan.
C1_DegenerateReadsEmpty ==
    \A v \in Bound :
        Degenerate(This(v)) =>
            /\ payments(This(v)) = <<>>
            /\ totalCost(This(v)) = Zero
            /\ totalInterest(This(v)) = Zero

\* C2: for amount > 0, term > 0 and rate # 0 the schedule is non-empty, its
\* last payment leaves a balance of 0 to within less than one cent, every
\* payment before the last leaves a balance > 0, and what the loop leaves
\* outstanding is paid by exactly one tail payment {amount = balance,
\* principal = balance, interest = 0, balance = 0}.
C2_ScheduleEndsAtZero ==
    \A v \in Bound :
        LET this == This(v)
            p == payments(this)
            n == paymentsCountTotal(this)
            last == p[Len(p)]
            outstanding == IF Len(p) = 1 THEN this._amount ELSE p[Len(p) - 1].balance
        IN  (Greater(this._amount, Zero) /\ this._termInMonths > 0
                /\ Truthy(this._rate)) =>
                /\ p # <<>>
                /\ GreaterEq(last.balance, Zero)
                /\ Less(last.balance, Num(1, 100))
                /\ \A i \in 1..(Len(p) - 1) : Greater(p[i].balance, Zero)
                /\ Len(p) <= n + 1
                /\ Len(p) = n + 1 =>
                       last = LoanPayment(outstanding, outstanding, Zero, Zero)

\* What a caller reads from a Loan: the derived properties, by value.
Derived(this) ==
    [repaymentAmount |-> repaymentAmount(this),
     totalCost |-> totalCost(this),
     totalInterest |-> totalInterest(this),
     paymentsCountPerYear |-> paymentsCountPerYear(this),
     paymentsCountTotal |-> paymentsCountTotal(this),
     payments |-> payments(this)]

\* C3: right after c = loan.clone(), at any point of any sequence of setter
\* calls and reads, every derived property read from the clone equals the
\* one read from the source.
C3_CloneReadsTheSame ==
    (op.name = "clone" /\ op.var = "loan") => Derived(heap[c]) = Derived(heap[1])

\* C4: a Loan configured with interestOnlyYears = y has the same
\* repaymentAmount and the same schedule as an otherwise identical Loan
\* configured with interestOnlyRepaymentCount = y * paymentsCountPerYear.
C4_YearsAndCountAgree ==
    \A v \in Bound :
        LET this == This(v)
            y == this._interestOnlyYears
            twin == SetInterestOnlyRepaymentCount(this, y * paymentsCountPerYear(this))
        IN  y # 0 =>
                /\ repaymentAmount(twin) = repaymentAmount(this)
                /\ payments(twin) = payments(this)

\* The object the last call went to.
Target == heap[Ref(op.var)]

\* C5: immediately after one representation of an override pair is set to
\* v >= 0 (0 included), that representation reads v and the other reads v
\* converted with the current paymentsCountPerYear.
C5_SetThenReadBoth ==
    LET this == Target
        ppy == paymentsCountPerYear(this)
    IN  /\ op.name = "interestOnlyRepaymentCount" =>
               /\ interestOnlyRepaymentCount(this) = Number(op.arg)
               /\ interestOnlyYears(this) = Num(op.arg, ppy)
        /\ op.name = "interestOnlyYears" =>
               /\ interestOnlyYears(this) = Number(op.arg)
               /\ interestOnlyRepaymentCount(this) = Number(op.arg * ppy)
        /\ op.name = "armFixedRateForRepaymentCount" =>
               /\ armFixedRateForRepaymentCount(this) = Number(op.arg)
               /\ armFixedRateForYears(this) = Num(op.arg, ppy)
        /\ op.name = "armFixedRateForYears" =>
               /\ armFixedRateForYears(this) = Number(op.arg)
               /\ armFixedRateForRepaymentCount(this) = Number(op.arg * ppy)
        /\ op.name = "armRepaymentCountBetweenAdjustments" =>
               /\ armRepaymentCountBetweenAdjustments(this) = Number(op.arg)
               /\ armMonthsBetweenAdjustments(this) = Num(op.arg * 12, ppy)
        /\ op.name = "armMonthsBetweenAdjustments" =>
               /\ armMonthsBetweenAdjustments(this) = Number(op.arg)
               /\ armRepaymentCountBetweenAdjustments(this) = Num(op.arg * ppy, 12)

\* The last call set interestOnlyRepaymentCount = 12 on a monthly Loan.
CountSetTo12Monthly ==
    /\ op.name = "interestOnlyRepaymentCount"
    /\ op.arg = 12
    /\ Target._repaymentFrequency = "monthly"

\* The next call switches the same Loan to quarterly.
ThenQuarterly ==
    /\ op'.name = "repaymentFrequency"
    /\ op'.arg = "quarterly"
    /\ op'.var = op.var

\* C6 as stated: after interestOnlyRepaymentCount = 12 under monthly
\* frequency interestOnlyYears reads 1, and after the switch to quarterly
\* that follows interestOnlyRepaymentCount reads 4.
C6_CountFollowsFrequency ==
    [][CountSetTo12Monthly =>
          /\ interestOnlyYears(Target) = Number(1)
          /\ ThenQuarterly => interestOnlyRepaymentCount(Target') = Number(4)]_vars

\* C6 as amended: after interestOnlyRepaymentCount = 12 under monthly
\* frequency interestOnlyYears reads 1, and after the switch to quarterly
\* that follows interestOnlyRepaymentCount still reads 12 and
\* interestOnlyYears reads 3.
C6_YearsFollowFrequency ==
    [][CountSetTo12Monthly =>
          /\ interestOnlyYears(Target) = Number(1)
          /\ ThenQuarterly =>
                 /\ interestOnlyRepaymentCount(Target') = Number(12)
                 /\ interestOnlyYears(Target') = Number(3)]_vars

\* Two calls were made, the second a switch to quarterly on a Loan whose
\* stored count is 12: the first set the count, under monthly frequency.
C6_Witness ==
    /\ steps = 2
    /\ op.name = "repaymentFrequency"
    /\ op.arg = "quarterly"
    /\ Target._interestOnlyRepayments = 12
    /\ interestOnlyYears(Target) = Number(3)

\* x is the value the getter of property `name` returns on `this`.
IsCurrentValue(this, name, x) ==
    CASE name = "amount" -> x = this._amount
      [] name = "interestRate" -> x = this._rate
      [] name = "months" -> x = this._termInMonths
      [] name = "years" -> x = years(this)
      [] name = "repaymentFrequency" -> x = this._repaymentFrequency
      [] name = "extraPayment" -> x = this._extraPayment
      [] name = "rounding" -> x = this._rounding
      [] name = "calculateWeeklyAndFortnightlyRepaymentsBasedOnYearlyRepayments" ->
            x = this._calculateWeeklyAndFortnightlyRepaymentsBasedOnYearlyRepayments
      [] name = "interestOnlyRepaymentCount" ->
            Number(x) = interestOnlyRepaymentCount(this)
      [] name = "interestOnlyYears" -> Number(x) = interestOnlyYears(this)
      [] name = "armFixedRateForRepaymentCount" ->
            Number(x) = armFixedRateForRepaymentCount(this)
      [] name = "armFixedRateForYears" -> Number(x) = armFixedRateForYears(this)
      [] name = "armInitialVariableRate" -> x = this._armVariableRate
      [] name = "armRepaymentCountBetweenAdjustments" ->
            Number(x) = armRepaymentCountBetweenAdjustments(this)
      [] name = "armMonthsBetweenAdjustments" ->
            Number(x) = armMonthsBetweenAdjustments(this)
      [] name = "armExpectedAdjustmentRate" -> x = this._armExpectedAdjustmentRate
      [] name = "armMaximumInterestRate" -> x = this._armMaximumInterestRate
      [] OTHER -> FALSE

\* C7: a call of any setter with the value its property currently reads
\* changes no stored attribute and does not mark the schedule dirty.
C7_EqualValueIsNoOp ==
    [][IsCurrentValue(heap[Ref(op'.var)], op'.name, op'.arg) =>
          heap'[Ref(op'.var)] = heap[Ref(op'.var)]]_vars

\* C8: once c is a clone, a call through c leaves the object of `loan` as
\* it is, and a call through `loan` leaves the object of c as it is: every
\* property and the schedule of the one are untouched by the other.
C8_CloneIsIndependent ==
    [][(c # 0 /\ c' = c) =>
          /\ op'.var = "c" => heap'[1] = heap[1]
          /\ op'.var = "loan" => heap'[c] = heap[c]]_vars

\* A clone exists, and the last call changed one of the two and made them
\* differ.
C8_Witness ==
    /\ c # 0
    /\ op.name \notin ReadNames \cup {"clone"}
    /\ Derived(heap[c]) # Derived(heap[1])

\* The adjustable properties of a Loan: its fields but the cached schedule.
Config(this) ==
    [this EXCEPT !._calculated = FALSE, !._payments = <<>>,
                 !._totalCost = Zero, !._totalInterest = Zero]

\* A read of payments, totalCost or totalInterest would run the loop.
Rebuilds(this) == ~this._calculated /\ ~Degenerate(this)

\* C9: a read of a derived property changes no adjustable property; the
\* same read made again, with no setter call in between, returns the same
\* values; and after a read of payments, totalCost or totalInterest the
\* next such read does not rebuild the schedule.
C9_ReadsAreIdempotent ==
    [][op'.name \in ReadNames =>
          LET before == heap[Ref(op'.var)]
              after == heap'[Ref(op'.var)]
          IN  /\ Config(after) = Config(before)
              /\ Derived(after) = Derived(before)
              /\ op'.name \in CalcReadNames => ~Rebuilds(after)]_vars

\* The schedule was read twice in a row from a Loan that has one.
C9_Witness ==
    /\ op.twice
    /\ op.name \in CalcReadNames
    /\ Target._calculated
    /\ Target._payments # <<>>

\* At most one stored representation of each override pair is not zero.
AtMostOneStored(this) ==
    /\ this._interestOnlyYears = 0 \/ this._interestOnlyRepayments = 0
    /\ this._armFixedRateForYears = 0 \/ this._armFixedRateForRepaymentCount = 0
    /\ this._armMonthsBetweenAdjustments = 0
           \/ this._armRepaymentCountBetweenAdjustments = 0

\* Across a change of frequency from `before` to `after`, the live
\* representation of each pair reads what it read and the other view reads
\* it converted with the new paymentsCountPerYear.
LiveValuesKept(before, after) ==
    LET ppy == paymentsCountPerYear(after)
    IN  /\ IF before._interestOnlyYears # 0
           THEN /\ interestOnlyYears(after) = Number(before._interestOnlyYears)
                /\ interestOnlyRepaymentCount(after) =
                       Number(before._interestOnlyYears * ppy)
           ELSE /\ interestOnlyRepaymentCount(after) =
                       Number(before._interestOnlyRepayments)
                /\ interestOnlyYears(after) = Num(before._interestOnlyRepayments, ppy)
        /\ IF before._armFixedRateForYears # 0
           THEN /\ armFixedRateForYears(after) = Number(before._armFixedRateForYears)
                /\ armFixedRateForRepaymentCount(after) =
                       Number(before._armFixedRateForYears * ppy)
           ELSE /\ armFixedRateForRepaymentCount(after) =
                       Number(before._armFixedRateForRepaymentCount)
                /\ armFixedRateForYears(after) =
                       Num(before._armFixedRateForRepaymentCount, ppy)
        /\ IF before._armMonthsBetweenAdjustments # 0
           THEN /\ armMonthsBetweenAdjustments(after) =
                       Number(before._armMonthsBetweenAdjustments)
                /\ armRepaymentCountBetweenAdjustments(after) =
                       Num(before._armMonthsBetweenAdjustments * ppy, 12)
           ELSE /\ armRepaymentCountBetweenAdjustments(after) =
                       Number(before._armRepaymentCountBetweenAdjustments)
                /\ armMonthsBetweenAdjustments(after) =
                       Num(before._armRepaymentCountBetweenAdjustments * 12, ppy)

\* C10: a change of repaymentFrequency never changes what the live
\* representation of an override pair reads, only the other view, which
\* becomes the live value converted with the new paymentsCountPerYear; and
\* in every reachable state at most one stored representation of each pair
\* is not zero.
C10_FrequencyKeepsLiveValue ==
    /\ [](\A v \in Bound : AtMostOneStored(This(v)))
    /\ [][op'.name = "repaymentFrequency" =>
             LiveValuesKept(heap[Ref(op'.var)], heap'[Ref(op'.var)])]_vars

\* The frequency of a Loan was just changed while one pair has its years
\* live and another its count.
C10_Witness ==
    /\ op.name = "repaymentFrequency"
    /\ Target._repaymentFrequency # "monthly"
    /\ Target._interestOnlyRepayments # 0
    /\ Target._armFixedRateForYears # 0

\* The Loan after _calculate has built the schedule from its current
\* attribute values, with nothing cached beforehand.
Computed(this) == _calculate(Config(this))

\* The value of the loop's variable `rate` in period p (before the loop for
\* p < 0).
RECURSIVE RateAt(_, _)
RateAt(this, p) ==
    IF p < 0 THEN _calcInterestRateForPeriod(this)
    ELSE AdjustedRate(LoopConstants(this), RateAt(this, p - 1), p)

\* The balance before the payment of period p of schedule s.
BalanceBefore(this, s, p) == IF p = 0 THEN this._amount ELSE s[p].balance

\* The payment of period p is interest only: the interest on the balance,
\* no principal, no extra payment, the balance as it was.
InterestOnlyPayment(this, s, p) ==
    LET before == BalanceBefore(this, s, p)
        payment == s[p + 1]
    IN  /\ payment.interest = _round(this, Mul(RateAt(this, p), before))
        /\ payment.amount = payment.interest
        /\ payment.principal = Zero
        /\ payment.balance = before

\* The payment of period p is amortizing: the repayment and the extra
\* payment, or what is owed if that is less.
AmortizingPayment(this, s, p) ==
    LET before == BalanceBefore(this, s, p)
        payment == s[p + 1]
    IN  payment.amount =
            _round(this, Min(Add(repaymentAmount(this), this._extraPayment),
                             Add(before, payment.interest)))

\* The periods of schedule s the loop went through: all but a payment made
\* after the loop.
LoopPeriods(this, s) ==
    {p \in 0..(Len(s) - 1) : p < paymentsCountTotal(this)}

\* C11: in the schedule computed for a Loan, every payment at an index below
\* the effective interest-only count has amount = interest = round(rate *
\* balance), principal 0 and the balance it started from, without the extra
\* payment; the extra payment enters the payments from that index on.
C11_InterestOnlyPeriods ==
    \A v \in Bound :
        LET this == This(v)
            s == Computed(this)._payments
        IN  \A p \in LoopPeriods(this, s) :
                IF Less(Number(p), interestOnlyRepaymentCount(this))
                THEN InterestOnlyPayment(this, s, p)
                ELSE AmortizingPayment(this, s, p)

\* The balance reached zero: nothing is owed after the last payment of
\* schedule s (of the amount, when s has no payment).
ReachedZero(this, s) ==
    ~Greater(IF s = <<>> THEN this._amount ELSE s[Len(s)].balance, Zero)

\* The last payment of s is one made after the loop.
EndsWithTail(s) ==
    LET last == s[Len(s)]
    IN  last.interest = Zero /\ last.balance = Zero /\ last.amount = last.principal

C13_ExtraPaymentNeverCostsMore ==
    \A v \in Bound :
        LET this == This(v)
            with == Computed(this)
            without == Computed(SetExtraPayment(clone(this), Zero))
        IN  Greater(this._extraPayment, Zero) =>
                /\ Len(with._payments) <= Len(without._payments)
                /\ ~Greater(with._totalInterest, without._totalInterest)
                /\ ~Greater(with._totalCost, without._totalCost)

\* C14: with the flag false and weekly (fortnightly) frequency, the
\* repayment amount is that of the same Loan at monthly frequency divided by
\* 4 (by 2), and the total cost computed is not higher than the one computed
\* for the same Loan with the flag true.
C14_SubMonthlyFromMonthly ==
    \A v \in Bound :
        LET this == This(v)
            monthly == SetRepaymentFrequency(this, "monthly")
            flagged ==
                SetCalculateWeeklyAndFortnightlyRepaymentsBasedOnYearlyRepayments(this, TRUE)
        IN  (/\ ~this._calculateWeeklyAndFortnightlyRepaymentsBasedOnYearlyRepayments
             /\ this._repaymentFrequency \in {"weekly", "fortnightly"}) =>
                /\ repaymentAmount(this) =
                       DivInt(repaymentAmount(monthly),
                              IF this._repaymentFrequency = "weekly" THEN 4 ELSE 2)
                /\ ~Greater(Computed(this)._totalCost, Computed(flagged)._totalCost)

\* The rate of period p differs from the rate of the period before it.
RateChanges(this, p) == RateAt(this, p) # RateAt(this, p - 1)

\* C15: when the three ARM rates are non-zero, the rate of every period the
\* loop goes through from the switch period on is not above
\* armMaximumInterestRate / 12 / 100 and not below the rate of the period
\* before it (the switch itself apart), and the rate changes only at the
\* switch period and at the periods after it that are multiples of the
\* adjustment interval.
C15_ArmRateRisesToCap ==
    \A v \in Bound :
        LET this == This(v)
            k == LoopConstants(this)
            periods == LoopPeriods(this, Computed(this)._payments)
        IN  k.doAdjustments =>
                \A p \in periods :
                    /\ GreaterEq(Number(p), k.adjustAfterRepayments) =>
                           ~Greater(RateAt(this, p), k.maxAdjustedRate)
                    /\ Greater(Number(p), k.adjustAfterRepayments) =>
                           GreaterEq(RateAt(this, p), RateAt(this, p - 1))
                    /\ RateChanges(this, p) =>
                           \/ Number(p) = k.adjustAfterRepayments
                           \/ /\ Greater(Number(p), k.adjustAfterRepayments)
                              /\ IsMultiple(p, k.adjustmentPeriod)

\* The same Loan with every ARM attribute as `new Loan()` leaves it.
WithoutArm(this) ==
    [Config(this) EXCEPT
        !._armVariableRate = NewLoan._armVariableRate,
        !._armExpectedAdjustmentRate = NewLoan._armExpectedAdjustmentRate,
        !._armMaximumInterestRate = NewLoan._armMaximumInterestRate,
        !._armFixedRateForRepaymentCount = NewLoan._armFixedRateForRepaymentCount,
        !._armFixedRateForYears = NewLoan._armFixedRateForYears,
        !._armRepaymentCountBetweenAdjustments =
            NewLoan._armRepaymentCountBetweenAdjustments,
        !._armMonthsBetweenAdjustments = NewLoan._armMonthsBetweenAdjustments]

\* At least one of the three ARM rates is zero.
ArmInactive(this) ==
    \/ this._armVariableRate = Zero
    \/ this._armExpectedAdjustmentRate = Zero
    \/ this._armMaximumInterestRate = Zero

\* What is computed for a Loan: the schedule, both totals and the repayment.
Results(this) ==
    LET done == Computed(this)
    IN  [payments |-> done._payments,
         totalCost |-> done._totalCost,
         totalInterest |-> done._totalInterest,
         repaymentAmount |-> repaymentAmount(this)]

\* C16: when at least one of the three ARM rates is zero, what is computed
\* for a Loan is what is computed for the same Loan with every ARM attribute
\* at its default, whatever the other ARM attributes are.
C16_InactiveArmChangesNothing ==
    \A v \in Bound :
        ArmInactive(This(v)) => Results(This(v)) = Results(WithoutArm(This(v)))

\* A Loan with a schedule has two of the three ARM rates set, the third
\* zero, and a fixed-rate period or an adjustment interval of its own.
C16_Witness ==
    \E v \in Bound :
        LET this == This(v)
        IN  /\ this._armVariableRate # Zero
            /\ this._armMaximumInterestRate # Zero
            /\ this._armExpectedAdjustmentRate = Zero
            /\ \/ armFixedRateForRepaymentCount(this) # Zero
               \/ this._armRepaymentCountBetweenAdjustments # 0
            /\ Len(Computed(this)._payments) > 1

\* C17: for an amount >= 0, every amortizing payment of the schedule
\* computed pays no more than the balance before it plus its interest, and
\* no more principal than that balance; the balance recorded in every
\* payment is >= 0.
C17_NeverOverpays ==
    \A v \in Bound :
        LET this == This(v)
            s == Computed(this)._payments
        IN  GreaterEq(this._amount, Zero) =>
                /\ \A p \in LoopPeriods(this, s) :
                       GreaterEq(Number(p), interestOnlyRepaymentCount(this)) =>
                           LET before == BalanceBefore(this, s, p)
                           IN  /\ ~Greater(s[p + 1].amount,
                                           Add(before, s[p + 1].interest))
                               /\ ~Greater(s[p + 1].principal, before)
                /\ \A i \in 1..Len(s) : GreaterEq(s[i].balance, Zero)

\* A finite x is a multiple of 10^-r: it has at most r fractional digits.
RoundedTo(x, r) == IsFinite(x) => Pow10(r) % x[2] = 0

\* C18: the repayment amount of a Loan and the amount, principal, interest
\* and balance of every payment of the schedule computed for it are
\* multiples of 10^-rounding, whatever the frequency, the flag and the
\* amount are.
C18_EverythingRounded ==
    \A v \in Bound :
        LET this == This(v)
            r == this._rounding
            s == Computed(this)._payments
        IN  /\ RoundedTo(repaymentAmount(this), r)
            /\ \A i \in 1..Len(s) :
                   /\ RoundedTo(s[i].amount, r)
                   /\ RoundedTo(s[i].principal, r)
                   /\ RoundedTo(s[i].interest, r)
                   /\ RoundedTo(s[i].balance, r)

\* The cache of a Loan: the schedule and the two totals it holds.
Cache(this) ==
    [payments |-> this._payments,
     totalCost |-> this._totalCost,
     totalInterest |-> this._totalInterest]

\* C19: whenever the flag of a Loan says the schedule is calculated, the
\* cached schedule and totals are those a computation from scratch with the
\* current attribute values produces; a setter call that changes a stored
\* attribute clears the flag; and the flag becomes set only in a read of
\* payments, totalCost or totalInterest, which leaves the complete schedule.
C19_CacheIsCurrent ==
    /\ [](\A v \in Bound :
              This(v)._calculated => Cache(This(v)) = Cache(Computed(This(v))))
    /\ [][op'.name \notin {"clone", "newLoan"} =>
             LET before == heap[Ref(op'.var)]
                 after == heap'[Ref(op'.var)]
             IN  /\ Config(after) # Config(before) => ~after._calculated
                 /\ (~before._calculated /\ after._calculated) =>
                        /\ op'.name \in CalcReadNames
                        /\ after = Computed(before)]_vars

\* A setter was called on a Loan that held a calculated schedule: the
\* schedule is still cached, out of date, and the flag is cleared.
C19_Witness ==
    /\ op.name \notin ReadNames \cup {"clone", "newLoan"}
    /\ ~Target._calculated
    /\ ~Degenerate(Target)
    /\ Target._payments # <<>>
    /\ Cache(Target) # Cache(Computed(Target))

RECURSIVE SumOf(_, _)
SumOf(s, f) ==
    IF s = <<>> THEN Zero
    ELSE Add(SumOf(SubSeq(s, 1, Len(s) - 1), f), s[Len(s)][f])

\* The totals of a Loan are the sums over the payments it holds.
TotalsAreSums(this) ==
    /\ this._totalCost = SumOf(this._payments, "amount")
    /\ this._totalInterest = SumOf(this._payments, "interest")

\* Every payment of schedule s records the balance before it minus its
\* principal.
BalancesChain(this, s) ==
    \A i \in 1..Len(s) :
        s[i].balance = Sub(BalanceBefore(this, s, i - 1), s[i].principal)

\* What was paid beyond the interest is what the loan amount went down by.
NetCostIsRepaid(this, s) ==
    s # <<>> =>
        Sub(this._totalCost, this._totalInterest)
            = Sub(this._amount, s[Len(s)].balance)

\* C21: the totals a Loan holds are the sums of the amount and of the
\* interest fields of the payments it holds, with nothing carried over from
\* an earlier computation; in the schedule computed, every payment's balance
\* is the balance of the payment before it (the loan amount for the first)
\* minus its principal, and totalCost - totalInterest is the loan amount
\* minus the balance of the last payment.
C21_TotalsAndBalances ==
    \A v \in Bound :
        LET this == This(v)
        IN  /\ TotalsAreSums(this)
            /\ TotalsAreSums(Computed(this))
            /\ BalancesChain(this, Computed(this)._payments)
            /\ NetCostIsRepaid(Computed(this), Computed(this)._payments)

====
